---- MODULE Spec2Model ----
(***************************************************************************)
(* Model of ruin.py: exchanges (venues) that pay a per-tick return or      *)
(* explode, traders (agents) that hold bets on exchanges and record their  *)
(* balances lazily, and the driver main / generate_exchanges /             *)
(* generate_traders / run_simulation.                                      *)
(*                                                                         *)
(* Money is fixed point: the float 1.0 is One units, so that               *)
(* BET_SIZE = 1.0 / BETS_PER_TRADER is exactly one unit.  The module       *)
(* globals NUM_EXCHANGES, BETS_PER_TRADER, MAX_RISK and the argument steps *)
(* of run_simulation are fixed before main runs; Init draws them from      *)
(* bounded sets.  Objects are referred to by their 1-based position in the *)
(* lists `exchanges` and `traders`.                                        *)
(***************************************************************************)
EXTENDS Integers, Sequences, FiniteSets

VARIABLES NUM_EXCHANGES, BETS_PER_TRADER, MAX_RISK, steps,
          pc, exchanges, traders, i, j, payoffs, calls

vars == <<NUM_EXCHANGES, BETS_PER_TRADER, MAX_RISK, steps,
          pc, exchanges, traders, i, j, payoffs, calls>>

config == <<NUM_EXCHANGES, BETS_PER_TRADER, MAX_RISK, steps>>

----------------------------------------------------------------------------
(* Bounds of the model *)

MaxExchanges == 3

MaxBets == 2

MaxSteps == 3

(* bound on the number of tick calls of one run, NUM_EXCHANGES * steps *)
MaxTicks == 7

(* Program constants *)

DefaultMaxRisk == 30

RUIN_DECAY == 2

PremiumDecayNum == 13

PremiumDecayDen == 5

MaxPremiumE4 == 9

NegInfMagnitude == 10000

(* MAX_RISK as shipped, the smallest value for which randint's range is    *)
(* not empty (z = 1), and one below it (z = 0).                            *)
MaxRiskValues == {0, 1, DefaultMaxRisk}

(* Fixed-point resolution of the fractional power in the premium. *)
PowScale == 10

----------------------------------------------------------------------------
(* Fixed point money *)

One == BETS_PER_TRADER

BET_SIZE == One \div BETS_PER_TRADER

NEGATIVE_INFINITY == (0 - NegInfMagnitude) * One

(* Samples of np.random.normal(RETURN_MEAN + premium, RETURN_STD): the     *)
(* normal distribution has every real in its support; the model takes a    *)
(* loss larger than one bet, a gain of one bet, and a gain as large as the *)
(* sentinel (it stands for the gains a balance can accumulate).            *)
NormalPayoffs == {0 - 2 * BET_SIZE, BET_SIZE, 0 - NEGATIVE_INFINITY}

----------------------------------------------------------------------------
(* Exchange *)

RECURSIVE IPow(_, _)
IPow(b, e) == IF e = 0 THEN 1 ELSE b * IPow(b, e - 1)

(* floor of the PremiumDecayDen-th root of n *)
IRoot(n) == CHOOSE r \in 0..n : IPow(r, PremiumDecayDen) <= n
                                 /\ IPow(r + 1, PremiumDecayDen) > n

(* scale = (1 - rank) ** PREMIUM_DECAY with rank = (z - MAX_RISK) /         *)
(* (NUM_EXCHANGES - 1), and premium = scale * MAX_PREMIUM.  1 - rank is the *)
(* rational p / q below; x ** 2.6 is computed as x^2 * x^(3/5), the second  *)
(* factor in fixed point with PowScale steps.  The result is in units of    *)
(* 1e-4 / (q^2 * PowScale).                                                 *)
(* rank = (float(self.z) - MAX_RISK) / (NUM_EXCHANGES - 1), kept as the    *)
(* rational RankNum(z) / RankDen.                                          *)
RankNumNegated(z) == MAX_RISK - z

RankNum(z) == z - MAX_RISK

RankDen == NUM_EXCHANGES - 1

PremiumBadSign(z) ==
    LET q == RankDen
        p == q + RankNum(z)
        whole == PremiumDecayNum \div PremiumDecayDen
        frac == PremiumDecayNum - whole * PremiumDecayDen
        root == IRoot((IPow(p, frac) * IPow(PowScale, PremiumDecayDen))
                       \div IPow(q, frac))
    IN  IPow(p, whole) * root * MaxPremiumE4

Premium(z) ==
    LET q == RankDen
        p == q - RankNum(z)
        whole == PremiumDecayNum \div PremiumDecayDen
        frac == PremiumDecayNum - whole * PremiumDecayDen
        root == IRoot((IPow(p, frac) * IPow(PowScale, PremiumDecayDen))
                       \div IPow(q, frac))
    IN  IPow(p, whole) * root * MaxPremiumE4

ExchangeInit(z) ==
    [z |-> z, traders |-> <<>>, is_dead |-> FALSE, premium |-> Premium(z)]

register_trader(e, t) == [e EXCEPT !.traders = Append(@, t)]

(* np.random.randint(0, z ** RUIN_DECAY): low inclusive, high exclusive *)
DrawRangeInclusive(z) == 0..IPow(z, RUIN_DECAY)

DrawRange(z) == 0..(IPow(z, RUIN_DECAY) - 1)

(* The outcomes one call of tick can resolve for exchange e: the payoff it *)
(* delivers and is_dead after the call.                                    *)
OutcomesNoDeadCheck(e) ==
    {[payoff |-> NEGATIVE_INFINITY, is_dead |-> TRUE] :
        draw \in {d \in DrawRange(e.z) : d = 0}}
    \cup
    {[payoff |-> p, is_dead |-> e.is_dead] :
        p \in {n \in NormalPayoffs : \E d \in DrawRange(e.z) : d # 0}}

OutcomesFlagFromDraw(e) ==
    IF e.is_dead
    THEN {[payoff |-> 0, is_dead |-> d = 0] : d \in DrawRange(e.z)}
    ELSE {[payoff |-> NEGATIVE_INFINITY, is_dead |-> TRUE] :
             draw \in {d \in DrawRange(e.z) : d = 0}}
         \cup
         {[payoff |-> p, is_dead |-> FALSE] :
             p \in {n \in NormalPayoffs : \E d \in DrawRange(e.z) : d # 0}}

Outcomes(e) ==
    IF e.is_dead
    THEN {[payoff |-> 0, is_dead |-> TRUE]}
    ELSE {[payoff |-> NEGATIVE_INFINITY, is_dead |-> TRUE] :
             draw \in {d \in DrawRange(e.z) : d = 0}}
         \cup
         {[payoff |-> p, is_dead |-> FALSE] :
             p \in {n \in NormalPayoffs : \E d \in DrawRange(e.z) : d # 0}}

----------------------------------------------------------------------------
(* Trader *)

Count(s, x) == Cardinality({k \in DOMAIN s : s[k] = x})

(* the z of every exchange in the allocation list alloc *)
HeldZ(alloc) == {exchanges[alloc[k]].z : k \in DOMAIN alloc}

ZCount(alloc, z) == Cardinality({k \in DOMAIN alloc : exchanges[alloc[k]].z = z})

TraderInitFlatBalance(trader_id, alloc) ==
    LET balance == [z \in HeldZ(alloc) |-> BET_SIZE]
    IN  [trader_id |-> trader_id,
         exchanges |-> alloc,
         account_balance |-> balance,
         account_series |-> [z \in HeldZ(alloc) |-> <<balance[z]>>],
         tick |-> 0]

TraderInit(trader_id, alloc) ==
    LET balance == [z \in HeldZ(alloc) |-> BET_SIZE * ZCount(alloc, z)]
    IN  [trader_id |-> trader_id,
         exchanges |-> alloc,
         account_balance |-> balance,
         account_series |-> [z \in HeldZ(alloc) |-> <<balance[z]>>],
         tick |-> 0]

record_balances_no_clamp(t, tick) ==
    [t EXCEPT !.account_series =
                  [z \in HeldZ(t.exchanges) |-> Append(@[z], t.account_balance[z])]]

record_balances_first_only(t, tick) ==
    LET z0 == exchanges[t.exchanges[1]].z
        clamped == IF t.account_balance[z0] < 0 THEN 0 ELSE t.account_balance[z0]
    IN  [t EXCEPT !.account_balance[z0] = clamped,
                  !.account_series[z0] = Append(@, clamped)]

record_balances(t, tick) ==
    LET clamped == [z \in HeldZ(t.exchanges) |->
                       IF t.account_balance[z] < 0 THEN 0 ELSE t.account_balance[z]]
    IN  [t EXCEPT !.account_balance = clamped,
                  !.account_series =
                      [z \in HeldZ(t.exchanges) |-> Append(@[z], clamped[z])]]

receive_payoff_add_first(t, z, payoff, tick) ==
    LET t1 == [t EXCEPT !.account_balance[z] = @ + payoff]
    IN  IF tick > t.tick
        THEN [record_balances(t1, t.tick) EXCEPT !.tick = tick]
        ELSE t1

receive_payoff_record_always(t, z, payoff, tick) ==
    LET t1 == IF tick >= t.tick
              THEN [record_balances(t, t.tick) EXCEPT !.tick = tick]
              ELSE t
    IN  [t1 EXCEPT !.account_balance[z] = @ + payoff]

receive_payoff(t, z, payoff, tick) ==
    LET t1 == IF tick > t.tick
              THEN [record_balances(t, t.tick) EXCEPT !.tick = tick]
              ELSE t
    IN  [t1 EXCEPT !.account_balance[z] = @ + payoff]

(* returns: elementwise sum of the series of all venues *)
RECURSIVE SumOver(_, _)
SumOver(f, S) ==
    IF S = {} THEN 0
    ELSE LET x == CHOOSE y \in S : TRUE IN f[x] + SumOver(f, S \ {x})

returns(t) ==
    LET zs == DOMAIN t.account_series
        len == Len(t.account_series[CHOOSE z \in zs : TRUE])
    IN  [k \in 1..len |-> SumOver([z \in zs |-> t.account_series[z][k]], zs)]

----------------------------------------------------------------------------
(* Exchange.tick: the notification loop `for t in self.traders` *)

(* st.traders are the traders and st.calls the log of the receive_payoff    *)
(* calls made so far: who was called, and with which arguments.            *)
Call(st, t, z, payoff, tick_num) ==
    [traders |-> [st.traders EXCEPT ![t] = receive_payoff(@, z, payoff, tick_num)],
     calls |-> Append(st.calls, [t |-> t, z |-> z, payoff |-> payoff, tick |-> tick_num])]

RECURSIVE NotifyFrom(_, _, _, _, _, _)
NotifyFrom(st, regs, k, z, payoff, tick_num) ==
    IF k > Len(regs) THEN st
    ELSE NotifyFrom(Call(st, regs[k], z, payoff, tick_num),
                    regs, k + 1, z, payoff, tick_num)

RECURSIVE NotifyOncePerTrader(_, _, _, _, _, _)
NotifyOncePerTrader(st, regs, k, z, payoff, tick_num) ==
    IF k > Len(regs) THEN st
    ELSE NotifyOncePerTrader(
             IF \E m \in 1..(k - 1) : regs[m] = regs[k]
             THEN st ELSE Call(st, regs[k], z, payoff, tick_num),
             regs, k + 1, z, payoff, tick_num)

NotifyDeduplicated(st, regs, z, payoff, tick_num) ==
    NotifyOncePerTrader(st, regs, 1, z, payoff, tick_num)

Notify(st, regs, z, payoff, tick_num) ==
    NotifyFrom(st, regs, 1, z, payoff, tick_num)

----------------------------------------------------------------------------
(* Driver *)

contiguous_sublists_stride_n(l, n) ==
    [k \in 1..(Len(l) \div n) |-> SubSeq(l, (k - 1) * n + 1, k * n)]

contiguous_sublists_size_n(l, n) ==
    [k \in 1..(Len(l) - (n - 1)) |-> SubSeq(l, k, k + n - 1)]

(* exchanges_perm: every exchange BETS_PER_TRADER times in a row *)
exchanges_perm_round_robin(n) ==
    [k \in 1..(n * BETS_PER_TRADER) |-> ((k - 1) % n) + 1]

exchanges_perm(n) ==
    [k \in 1..(n * BETS_PER_TRADER) |-> ((k - 1) \div BETS_PER_TRADER) + 1]

exchange_sets == contiguous_sublists_size_n(exchanges_perm(Len(exchanges)),
                                            BETS_PER_TRADER)

(* Trader.__init__'s last loop: `for e in self.exchanges: e.register_trader(self)` *)
RECURSIVE RegisterEachOnce(_, _, _)
RegisterEachOnce(exs, t, alloc) ==
    IF alloc = <<>> THEN exs
    ELSE RegisterEachOnce(
             IF \E m \in DOMAIN exs[Head(alloc)].traders :
                   exs[Head(alloc)].traders[m] = t
             THEN exs
             ELSE [exs EXCEPT ![Head(alloc)] = register_trader(@, t)],
             t, Tail(alloc))

RECURSIVE RegisterEach(_, _, _)
RegisterEach(exs, t, alloc) ==
    IF alloc = <<>> THEN exs
    ELSE RegisterEach([exs EXCEPT ![Head(alloc)] = register_trader(@, t)],
                      t, Tail(alloc))

(* the exchanges after the traders 1..n were constructed in order *)
RECURSIVE RegisterTraders(_, _, _)
RegisterTraders(exs, sets, n) ==
    IF n = 0 THEN exs
    ELSE RegisterEach(RegisterTraders(exs, sets, n - 1), n, sets[n])

(* Exchange.tick's assignment self.is_dead = True touches exchange k only *)
SetDeadShared(exs, k, dead) == [e \in DOMAIN exs |-> [exs[e] EXCEPT !.is_dead = dead]]

SetDead(exs, k, dead) == [exs EXCEPT ![k].is_dead = dead]

(* the loop position after exchanges[k].tick(step): the inner loop is over *)
(* the exchanges, the outer one over the steps.                            *)
NextPosExchangeMajor(step, k, n) ==
    IF step + 1 < steps THEN <<step + 1, k>>
    ELSE IF k < n THEN <<0, k + 1>> ELSE <<steps, 1>>

NextPos(step, k, n) == IF k < n THEN <<step, k + 1>> ELSE <<step + 1, 1>>

LoopContinuesInclusive(step, nsteps) == step <= nsteps

LoopContinues(step, nsteps) == step < nsteps

----------------------------------------------------------------------------
Init ==
    /\ NUM_EXCHANGES \in 2..MaxExchanges
    /\ BETS_PER_TRADER \in 1..MaxBets
    /\ MAX_RISK \in MaxRiskValues
    /\ steps \in 0..MaxSteps
    /\ NUM_EXCHANGES * steps <= MaxTicks
    /\ pc = "generate_exchanges"
    /\ exchanges = <<>>
    /\ traders = <<>>
    /\ i = 0
    /\ j = 1
    /\ payoffs = <<>>
    /\ calls = <<>>

generate_exchanges ==
    /\ pc = "generate_exchanges"
    /\ exchanges' = [k \in 1..NUM_EXCHANGES |-> ExchangeInit((k - 1) + MAX_RISK)]
    /\ payoffs' = [k \in 1..NUM_EXCHANGES |-> <<>>]
    /\ pc' = "generate_traders"
    /\ UNCHANGED <<config, traders, i, j, calls>>

generate_traders ==
    /\ pc = "generate_traders"
    /\ traders' = [k \in DOMAIN exchange_sets |-> TraderInit(k - 1, exchange_sets[k])]
    /\ exchanges' = RegisterTraders(exchanges, exchange_sets, Len(exchange_sets))
    /\ pc' = "run_simulation"
    /\ UNCHANGED <<config, i, j, payoffs, calls>>

(* one iteration of run_simulation's inner loop: exchanges[j].tick(i) *)
tick ==
    /\ pc = "run_simulation"
    /\ LoopContinues(i, steps)
    /\ \/ (* np.random.randint raises ValueError on an empty range; nothing *)
          (* catches it, so the run ends                                   *)
          /\ ~exchanges[j].is_dead
          /\ DrawRange(exchanges[j].z) = {}
          /\ pc' = "raised"
          /\ UNCHANGED <<exchanges, traders, payoffs, calls, i, j>>
       \/ \E o \in Outcomes(exchanges[j]) :
             LET st == Notify([traders |-> traders, calls |-> calls],
                              exchanges[j].traders, exchanges[j].z, o.payoff, i)
                 pos == NextPos(i, j, Len(exchanges))
             IN  /\ exchanges' = SetDead(exchanges, j, o.is_dead)
                 /\ traders' = st.traders
                 /\ calls' = st.calls
                 /\ payoffs' = [payoffs EXCEPT ![j] = Append(@, o.payoff)]
                 /\ i' = pos[1]
                 /\ j' = pos[2]
                 /\ pc' = pc
    /\ UNCHANGED config

(* run_simulation's outer loop is exhausted: `return exchanges` *)
return ==
    /\ pc = "run_simulation"
    /\ ~LoopContinues(i, steps)
    /\ pc' = "done"
    /\ UNCHANGED <<config, exchanges, traders, i, j, payoffs, calls>>

Next == generate_exchanges \/ generate_traders \/ tick \/ return

Spec == Init /\ [][Next]_vars

----------------------------------------------------------------------------
(* Properties *)

Generated == pc \in {"run_simulation", "done"}

Ticked(k) == payoffs'[k] # payoffs[k]

ZsOf(t) == [k \in DOMAIN traders[t].exchanges |-> exchanges[traders[t].exchanges[k]].z]

(* C1: in every reachable state every entry of every account_series of     *)
(* every trader is >= 0.                                                   *)
C1_HistoryNonNegative ==
    \A t \in DOMAIN traders :
        \A z \in DOMAIN traders[t].account_series :
            \A k \in DOMAIN traders[t].account_series[z] :
                traders[t].account_series[z][k] >= 0

(* A trader has recorded a clamped 0 for an exchange that is alive (a      *)
(* negative normal payoff) and a trader has recorded one for an exchange   *)
(* that delivered the sentinel.                                            *)
C1_Witness ==
    /\ \E t \in DOMAIN traders : \E e \in DOMAIN exchanges :
          /\ ~exchanges[e].is_dead
          /\ exchanges[e].z \in DOMAIN traders[t].account_series
          /\ LET s == traders[t].account_series[exchanges[e].z]
             IN  Len(s) >= 2 /\ s[Len(s)] = 0
    /\ \E t \in DOMAIN traders : \E e \in DOMAIN exchanges :
          /\ payoffs[e] # <<>> /\ payoffs[e][1] = NEGATIVE_INFINITY
          /\ exchanges[e].z \in DOMAIN traders[t].account_series
          /\ LET s == traders[t].account_series[exchanges[e].z]
             IN  Len(s) >= 2 /\ s[2] = 0

(* C2: once is_dead is true every later tick of that exchange delivers     *)
(* payoff exactly 0, and the sentinel is delivered in at most one tick per *)
(* exchange.                                                               *)
C2_DeadPaysZero ==
    /\ [][\A k \in DOMAIN exchanges :
            (exchanges[k].is_dead /\ Ticked(k))
                => payoffs'[k] = Append(payoffs[k], 0)]_vars
    /\ [](\A k \in DOMAIN payoffs : Count(payoffs[k], NEGATIVE_INFINITY) <= 1)

(* An exchange delivered the sentinel and was ticked again. *)
C2_Witness ==
    \E k \in DOMAIN payoffs : \E m \in DOMAIN payoffs[k] :
        /\ m + 1 \in DOMAIN payoffs[k]
        /\ payoffs[k][m] = NEGATIVE_INFINITY
        /\ payoffs[k][m + 1] = 0

(* C3: is_dead starts false and, once true, is true in every later state.  *)
C3_DeadMonotonic ==
    /\ [](pc = "generate_traders" => \A k \in DOMAIN exchanges : ~exchanges[k].is_dead)
    /\ [][\A k \in DOMAIN exchanges :
            exchanges[k].is_dead => exchanges'[k].is_dead]_vars

(* An exchange of the shipped risk range died in step 0 and is still dead  *)
(* when a run of at least two steps returns.                               *)
C3_Witness ==
    /\ pc = "done" /\ steps >= 2
    /\ \E k \in DOMAIN exchanges :
          /\ exchanges[k].z >= DefaultMaxRisk
          /\ exchanges[k].is_dead
          /\ payoffs[k][1] = NEGATIVE_INFINITY

(* C4: after run_simulation with steps >= 1 has returned, every series of  *)
(* every trader has steps + 1 entries (the final step is flushed).         *)
C4_FinalStepFlushed ==
    (pc = "done" /\ steps >= 1) =>
        \A t \in DOMAIN traders :
            \A z \in DOMAIN traders[t].account_series :
                Len(traders[t].account_series[z]) = steps + 1

(* C5: generate_traders builds N*B - B + 1 traders, trader number t holding *)
(* the B entries at positions t..t+B-1 of the flattened list; 3 traders for *)
(* 2 exchanges and B = 2.                                                   *)
C5_TraderCount ==
    Generated =>
        /\ Len(traders) = NUM_EXCHANGES * BETS_PER_TRADER - BETS_PER_TRADER + 1
        /\ \A t \in DOMAIN traders :
              /\ Len(traders[t].exchanges) = BETS_PER_TRADER
              /\ \A k \in 1..BETS_PER_TRADER :
                    traders[t].exchanges[k] = exchanges_perm(NUM_EXCHANGES)[t + k - 1]
        /\ (NUM_EXCHANGES = 2 /\ BETS_PER_TRADER = 2) => Len(traders) = 3

C5_Witness ==
    /\ pc = "run_simulation"
    /\ NUM_EXCHANGES = 2 /\ BETS_PER_TRADER = 2
    /\ Len(traders) = 3

(* C6 as stated: the flattened list is in round-robin order, so trader     *)
(* number t holds the exchanges at round-robin positions t..t+B-1.         *)
C6_RoundRobin ==
    Generated =>
        \A t \in DOMAIN traders : \A k \in DOMAIN traders[t].exchanges :
            traders[t].exchanges[k] = ((t + k - 2) % NUM_EXCHANGES) + 1

(* C6 amended: the flattened list holds every exchange BETS_PER_TRADER     *)
(* times in a row (e0, e0, e1, e1, ...), and trader number t holds         *)
(* positions t..t+B-1 of it; for z = 30, 31 and B = 2 the allocations are  *)
(* [30,30], [30,31], [31,31].                                              *)
C6_Grouped ==
    Generated =>
        /\ \A t \in DOMAIN traders : \A k \in DOMAIN traders[t].exchanges :
              traders[t].exchanges[k] = ((t + k - 2) \div BETS_PER_TRADER) + 1
        /\ \A e \in DOMAIN exchanges :
              Cardinality({k \in 1..(NUM_EXCHANGES * BETS_PER_TRADER) :
                              ((k - 1) \div BETS_PER_TRADER) + 1 = e}) = BETS_PER_TRADER
        /\ (NUM_EXCHANGES = 2 /\ BETS_PER_TRADER = 2 /\ MAX_RISK = DefaultMaxRisk)
              => [t \in DOMAIN traders |-> ZsOf(t)]
                    = << <<30, 30>>, <<30, 31>>, <<31, 31>> >>

C6_Witness ==
    /\ pc = "run_simulation"
    /\ NUM_EXCHANGES = 2 /\ BETS_PER_TRADER = 2 /\ MAX_RISK = DefaultMaxRisk
    /\ ZsOf(1) = <<30, 30>> /\ ZsOf(3) = <<31, 31>>

(* C7: the first tick of an exchange with z = 1 always delivers the        *)
(* sentinel and sets is_dead.                                              *)
C7_RiskOneAlwaysFails ==
    [][\A k \in DOMAIN exchanges :
          (exchanges[k].z = 1 /\ ~exchanges[k].is_dead /\ Ticked(k))
              => /\ exchanges'[k].is_dead
                 /\ payoffs'[k] = Append(payoffs[k], NEGATIVE_INFINITY)]_vars

C7_Witness ==
    \E k \in DOMAIN exchanges :
        /\ exchanges[k].z = 1
        /\ Len(payoffs[k]) = 1
        /\ payoffs[k][1] = NEGATIVE_INFINITY
        /\ exchanges[k].is_dead

(* C8: run_simulation with steps = 0 calls no tick and leaves every trader *)
(* and exchange as constructed.                                            *)
C8_ZeroStepsNoChange ==
    (pc = "done" /\ steps = 0) =>
        /\ \A k \in DOMAIN exchanges : payoffs[k] = <<>> /\ ~exchanges[k].is_dead
        /\ \A t \in DOMAIN traders :
              /\ traders[t].tick = 0
              /\ \A z \in DOMAIN traders[t].account_series :
                    /\ traders[t].account_series[z]
                          = <<BET_SIZE * ZCount(traders[t].exchanges, z)>>
                    /\ traders[t].account_balance[z]
                          = BET_SIZE * ZCount(traders[t].exchanges, z)

C8_Witness ==
    /\ pc = "done" /\ steps = 0
    /\ traders # <<>>
    /\ \A t \in DOMAIN traders : traders[t].tick = 0

(* C9: the first element of every trader's returns is                      *)
(* BET_SIZE * BETS_PER_TRADER, also when several of its bets are on one    *)
(* exchange.                                                               *)
C9_InitialReturns ==
    Generated =>
        \A t \in DOMAIN traders : returns(traders[t])[1] = BET_SIZE * BETS_PER_TRADER

(* A trader with two bets on one exchange, after balances were recorded. *)
C9_Witness ==
    \E t \in DOMAIN traders :
        /\ Len(traders[t].exchanges) >= 2
        /\ traders[t].exchanges[1] = traders[t].exchanges[2]
        /\ Len(returns(traders[t])) >= 2
        /\ returns(traders[t])[1] = BET_SIZE * BETS_PER_TRADER

(* C10: among the exchanges of generate_exchanges the premium is strictly  *)
(* decreasing in z.                                                        *)
C10_PremiumDecreasing ==
    \A a \in DOMAIN exchanges : \A b \in DOMAIN exchanges :
        exchanges[a].z < exchanges[b].z => exchanges[a].premium > exchanges[b].premium

C10_Witness ==
    /\ Len(exchanges) >= 3
    /\ exchanges[1].z = MAX_RISK
    /\ exchanges[1].premium > exchanges[2].premium
    /\ exchanges[Len(exchanges)].premium = 0

----------------------------------------------------------------------------
(* Properties of the notification and recording behaviour *)

Max0(x) == IF x < 0 THEN 0 ELSE x

(* number of allocation entries of trader t on exchange e *)
Bets(t, e) == Count(traders[t].exchanges, e)

(* the receive_payoff calls made on trader t, in order *)
CallsOf(t) == SelectSeq(calls, LAMBDA c : c.t = t)

(* the highest step index trader t was notified with, 0 before the first *)
HighestStep(t) ==
    LET S == {calls[m].tick : m \in {n \in DOMAIN calls : calls[n].t = t}}
    IN  IF S = {} THEN 0 ELSE CHOOSE x \in S : \A y \in S : y <= x

(* C11: the entry recorded for step m - 2 (entry number m of the series)   *)
(* is max(0, h + k * p) with h the previous entry, k the trader's bets on  *)
(* the exchange and p the exchange's payoff in that step only: it is        *)
(* recorded after all payoffs of that step and before any of the next.     *)
C11_LazyRecurrence ==
    \A t \in DOMAIN traders : \A e \in DOMAIN exchanges :
        Bets(t, e) > 0 =>
            LET s == traders[t].account_series[exchanges[e].z]
            IN  \A m \in 2..Len(s) :
                    /\ m - 1 \in DOMAIN payoffs[e]
                    /\ s[m] = Max0(s[m - 1] + Bets(t, e) * payoffs[e][m - 1])

(* A trader with two bets on one exchange recorded a gain and then a       *)
(* clamped loss.                                                           *)
C11_Witness ==
    \E t \in DOMAIN traders : \E e \in DOMAIN exchanges :
        /\ Bets(t, e) = 2
        /\ LET s == traders[t].account_series[exchanges[e].z]
           IN  /\ Len(s) >= 3
               /\ s[2] = s[1] + 2 * BET_SIZE
               /\ payoffs[e][2] < 0 /\ s[3] = 0

(* C12: if an exchange fails in step m - 1 (its payoff number m is the     *)
(* sentinel), every entry a trader holding it records for that step or a   *)
(* later one is 0.                                                         *)
C12_RuinZeroes ==
    \A t \in DOMAIN traders : \A e \in DOMAIN exchanges :
        Bets(t, e) > 0 =>
            LET s == traders[t].account_series[exchanges[e].z]
            IN  \A m \in DOMAIN payoffs[e] :
                    payoffs[e][m] = NEGATIVE_INFINITY =>
                        \A n \in (m + 1)..Len(s) : s[n] = 0

(* C13: a trader records once per step advance: each of its series has one *)
(* entry more than the highest step index it was notified with, however    *)
(* many notifications carried that index.                                  *)
C13_RecordOncePerStep ==
    \A t \in DOMAIN traders :
        \A z \in DOMAIN traders[t].account_series :
            Len(traders[t].account_series[z]) = HighestStep(t) + 1

(* A trader was notified of step 2 by more than one call and holds 3       *)
(* entries per series.                                                     *)
C13_Witness ==
    \E t \in DOMAIN traders :
        /\ Cardinality({m \in DOMAIN calls : calls[m].t = t /\ calls[m].tick = 2}) >= 2
        /\ \A z \in DOMAIN traders[t].account_series :
              Len(traders[t].account_series[z]) = 3

(* C14: the step indices a trader is notified with never decrease, every   *)
(* earlier step was notified once per allocation entry before the next     *)
(* step began, and Trader.tick never decreases and is the highest index    *)
(* notified.                                                               *)
C14_StepsInOrder ==
    /\ [](\A t \in DOMAIN traders :
            LET c == CallsOf(t)
            IN  /\ \A a \in DOMAIN c : \A b \in DOMAIN c :
                      a < b => c[a].tick <= c[b].tick
                /\ \A st \in 0..(HighestStep(t) - 1) :
                      Cardinality({m \in DOMAIN c : c[m].tick = st})
                          = Len(traders[t].exchanges)
                /\ traders[t].tick = HighestStep(t))
    /\ [][\A t \in DOMAIN traders :
            t \in DOMAIN traders' /\ traders'[t].tick >= traders[t].tick]_vars

(* A trader is notified of step 1 by an exchange that failed in step 0. *)
C14_Witness ==
    \E m \in DOMAIN calls : \E e \in DOMAIN exchanges :
        /\ calls[m].z = exchanges[e].z
        /\ calls[m].tick = 1 /\ calls[m].payoff = 0
        /\ payoffs[e][1] = NEGATIVE_INFINITY
        /\ traders[calls[m].t].tick = 1

(* C15: all series of one trader have the same length. *)
C15_SeriesSameLength ==
    \A t \in DOMAIN traders :
        \A y \in DOMAIN traders[t].account_series :
            \A z \in DOMAIN traders[t].account_series :
                Len(traders[t].account_series[y]) = Len(traders[t].account_series[z])

(* A trader holding two different exchanges has recorded twice. *)
C15_Witness ==
    \E t \in DOMAIN traders :
        /\ Cardinality(DOMAIN traders[t].account_series) = 2
        /\ \A z \in DOMAIN traders[t].account_series :
              Len(traders[t].account_series[z]) = 3

(* C16: a trader with k allocation entries on exchange e is registered k   *)
(* times with e, is seeded with BET_SIZE * k, is called k times by every   *)
(* tick of e, and its balance moves by k times the payoff.                 *)
C16_BetsMultiply ==
    Generated =>
        \A t \in DOMAIN traders : \A e \in DOMAIN exchanges :
            LET k == Bets(t, e)
                z == exchanges[e].z
            IN  /\ Count(exchanges[e].traders, t) = k
                /\ Cardinality({m \in DOMAIN calls : calls[m].t = t /\ calls[m].z = z})
                      = k * Len(payoffs[e])
                /\ k > 0 =>
                      LET s == traders[t].account_series[z]
                      IN  /\ s[1] = BET_SIZE * k
                          /\ calls = <<>> => (s = <<BET_SIZE * k>>
                                /\ traders[t].account_balance[z] = BET_SIZE * k)
                          /\ traders[t].account_balance[z]
                                = s[Len(s)]
                                  + (IF Len(payoffs[e]) > traders[t].tick
                                     THEN k * payoffs[e][traders[t].tick + 1]
                                     ELSE 0)

(* A trader with two bets on one exchange was called twice by its tick and *)
(* its balance moved by twice the payoff.                                  *)
C16_Witness ==
    \E t \in DOMAIN traders : \E e \in DOMAIN exchanges :
        /\ Bets(t, e) = 2
        /\ Len(payoffs[e]) = 1 /\ payoffs[e][1] = BET_SIZE
        /\ Cardinality({m \in DOMAIN calls : calls[m].t = t}) = 2
        /\ traders[t].account_balance[exchanges[e].z] = 4 * BET_SIZE

(* C17: a tick of exchange j calls every registered trader once per        *)
(* registration, in registration order, with the one payoff it resolved.   *)
C17_OnePayoffPerTick ==
    [][\A e \in DOMAIN payoffs :
          Ticked(e) =>
              calls' = calls \o
                  [m \in DOMAIN exchanges[e].traders |->
                      [t |-> exchanges[e].traders[m],
                       z |-> exchanges[e].z,
                       payoff |-> payoffs'[e][Len(payoffs'[e])],
                       tick |-> i]]]_vars

(* The last three calls came from one tick: a trader registered twice and  *)
(* another trader, all with the same payoff.                               *)
C17_Witness ==
    /\ Len(calls) >= 3
    /\ LET n == Len(calls)
       IN  /\ calls[n - 2].t = calls[n - 1].t /\ calls[n - 1].t # calls[n].t
           /\ calls[n - 2].z = calls[n].z /\ calls[n - 2].tick = calls[n].tick
           /\ calls[n - 2].payoff = calls[n].payoff
           /\ calls[n - 1].payoff = calls[n].payoff
           /\ calls[n].payoff # 0

(* C18: after setup no step changes an exchange's z, premium or trader     *)
(* list, a trader's allocation list, or is_dead of an exchange other than  *)
(* the one that ticks.                                                     *)
C18_TickFrame ==
    [][Generated =>
          /\ DOMAIN exchanges' = DOMAIN exchanges
          /\ DOMAIN traders' = DOMAIN traders
          /\ \A e \in DOMAIN exchanges :
                /\ exchanges'[e].z = exchanges[e].z
                /\ exchanges'[e].premium = exchanges[e].premium
                /\ exchanges'[e].traders = exchanges[e].traders
                /\ e # j => exchanges'[e].is_dead = exchanges[e].is_dead
          /\ \A t \in DOMAIN traders :
                traders'[t].exchanges = traders[t].exchanges]_vars

(* An exchange failed while another one, ticked before it, stays alive. *)
C18_Witness ==
    /\ pc = "done"
    /\ \E d \in DOMAIN exchanges : \E e \in DOMAIN exchanges :
          /\ d > e
          /\ exchanges[d].is_dead /\ ~exchanges[e].is_dead
          /\ payoffs[d][1] = NEGATIVE_INFINITY
          /\ Len(payoffs[e]) >= 2

(* C19 as stated: rank lies in [-1, 0], 0 for the riskiest exchange and -1 *)
(* for the least risky one.                                                *)
C19_RankNegative ==
    \A e \in DOMAIN exchanges :
        /\ 0 - RankDen <= RankNum(exchanges[e].z) /\ RankNum(exchanges[e].z) <= 0
        /\ exchanges[e].z = MAX_RISK => RankNum(exchanges[e].z) = 0
        /\ exchanges[e].z = MAX_RISK + NUM_EXCHANGES - 1
              => RankNum(exchanges[e].z) = 0 - RankDen

(* C19 amended: rank lies in [0, 1], 0 for the riskiest exchange           *)
(* (z = MAX_RISK) and +1 for the least risky one (z = MAX_RISK + N - 1).   *)
C19_RankUnit ==
    \A e \in DOMAIN exchanges :
        /\ 0 <= RankNum(exchanges[e].z) /\ RankNum(exchanges[e].z) <= RankDen
        /\ exchanges[e].z = MAX_RISK => RankNum(exchanges[e].z) = 0
        /\ exchanges[e].z = MAX_RISK + NUM_EXCHANGES - 1
              => RankNum(exchanges[e].z) = RankDen

C19_Witness ==
    /\ Len(exchanges) >= 3
    /\ exchanges[Len(exchanges)].z = MAX_RISK + NUM_EXCHANGES - 1
    /\ RankNum(exchanges[Len(exchanges)].z) = RankDen
    /\ RankNum(exchanges[2].z) > 0 /\ RankNum(exchanges[2].z) < RankDen

(* C20: no exchange with z < 1 exists in any reachable state, and tick     *)
(* never draws from an empty range.                                        *)
C20_NoVenueBelowOne ==
    /\ \A e \in DOMAIN exchanges : exchanges[e].z >= 1
    /\ pc # "raised"

====
